---- MODULE Spec2Model ----
(***************************************************************************)
(* A model of the ADF4351 driver (src/ADF4351.cpp, src/ADF4351.h).         *)
(*                                                                         *)
(* The object's fields are the variables; every public method is one       *)
(* action.  A double is an IEEE-754 binary64 value, NaN and +infinity      *)
(* included, and every arithmetic operation rounds as the hardware does;   *)
(* negative values are left out (a negative frequency is rejected, a       *)
(* negative reference or channel spacing is not drawn).  A uint32_t        *)
(* register word is the set of its set bit positions, so that |= is set    *)
(* union and << is a translation; the sink records, per writeRegister      *)
(* call, the four bytes handed to SPI.transfer.                            *)
(***************************************************************************)
EXTENDS Integers, Sequences, FiniteSets, TLC

VARIABLES
    _refFreqMHz,      \* double
    _outputFreqMHz,   \* double
    _pfdFreqMHz,      \* double
    _rCounter,        \* uint8_t
    _refDoubler,      \* uint8_t
    _refDiv2,         \* uint8_t
    _outputPower,     \* uint8_t
    _rfOutputEnable,  \* uint8_t
    _chargePumpCurr,  \* uint8_t
    sink,             \* SPI transactions so far, one 4-byte tuple per writeRegister
    build,            \* how this build resolves the code's undefined behaviour
    halted,           \* TRUE once an integer division by zero has trapped
    calls,            \* number of API calls made
    last,             \* the most recent API call: its arguments and outcome
    okFreq,           \* frequency argument of the latest setFrequency that returned true
    powerIn,          \* argument of the latest setOutputPower (constructor: 3)
    currentIn,        \* argument of the latest setChargePumpCurrent (constructor: 7)
    sfPrev,           \* the setFrequency call before the latest one
    sfLast,           \* the latest setFrequency call
    dirty,            \* a configuration method ran since the latest setFrequency
    sfDirty,          \* a configuration method ran between sfPrev and sfLast
    pending           \* arguments drawn at the start for the calls to come

vars == <<_refFreqMHz, _outputFreqMHz, _pfdFreqMHz, _rCounter, _refDoubler,
          _refDiv2, _outputPower, _rfOutputEnable, _chargePumpCurr, sink,
          build, halted, calls, last, okFreq, powerIn, currentIn,
          sfPrev, sfLast, dirty, sfDirty, pending>>

-----------------------------------------------------------------------------
(* Bounds of the model.                                                    *)

MaxCalls == 2
MaxSetterCalls == 3
GridDen == 4

-----------------------------------------------------------------------------
(* Natural numbers of any size: sequences of 15-bit limbs, least            *)
(* significant first, without leading zero limbs (0 is <<>>).               *)

Base == 2 ^ 15

Min(a, b) == IF a < b THEN a ELSE b
Max(a, b) == IF a > b THEN a ELSE b

Pow2(k) == 2 ^ k

Limb(a, i) == IF i >= 1 /\ i <= Len(a) THEN a[i] ELSE 0

RECURSIVE BTrim(_)
BTrim(a) == IF a = <<>> THEN a
            ELSE IF a[Len(a)] = 0 THEN BTrim(SubSeq(a, 1, Len(a) - 1))
            ELSE a

\* A natural number below 2^31.
BInt(n) == BTrim(<<n % Base, (n \div Base) % Base, n \div (Base * Base)>>)

\* Back to a number, for a value below 2^31.
BToInt(a) == Limb(a, 1) + Limb(a, 2) * Base + Limb(a, 3) * Base * Base

RECURSIVE BitLen(_)
BitLen(n) == IF n = 0 THEN 0 ELSE 1 + BitLen(n \div 2)

BBits(a) == IF a = <<>> THEN 0 ELSE 15 * (Len(a) - 1) + BitLen(a[Len(a)])

BBit(a, n) == (Limb(a, (n \div 15) + 1) \div Pow2(n % 15)) % 2

RECURSIVE BCmpAt(_, _, _)
BCmpAt(a, b, i) == IF i = 0 THEN 0
                   ELSE IF a[i] < b[i] THEN -1
                   ELSE IF a[i] > b[i] THEN 1
                   ELSE BCmpAt(a, b, i - 1)

\* -1, 0 or 1 as a < b, a = b or a > b.
BCmp(a, b) == IF Len(a) < Len(b) THEN -1
              ELSE IF Len(a) > Len(b) THEN 1
              ELSE BCmpAt(a, b, Len(a))

RECURSIVE BAddC(_, _, _, _)
BAddC(a, b, i, c) ==
    IF i > Len(b) /\ c = 0 THEN SubSeq(a, i, Len(a))
    ELSE IF i > Len(a) /\ i > Len(b) THEN <<c>>
    ELSE LET s == Limb(a, i) + Limb(b, i) + c
         IN  <<s % Base>> \o BAddC(a, b, i + 1, s \div Base)

BAdd(a, b) == BAddC(a, b, 1, 0)

RECURSIVE BSubC(_, _, _, _)
BSubC(a, b, i, br) ==
    IF i > Len(b) /\ br = 0 THEN SubSeq(a, i, Len(a))
    ELSE LET d == a[i] - Limb(b, i) - br
         IN  <<IF d < 0 THEN d + Base ELSE d>>
             \o BSubC(a, b, i + 1, IF d < 0 THEN 1 ELSE 0)

\* a - b for a >= b.
BSub(a, b) == BTrim(BSubC(a, b, 1, 0))

RECURSIVE BMulC(_, _, _, _)
BMulC(a, k, i, c) ==
    IF i > Len(a) THEN (IF c = 0 THEN <<>> ELSE <<c>>)
    ELSE LET p == a[i] * k + c
         IN  <<p % Base>> \o BMulC(a, k, i + 1, p \div Base)

\* a * k for 0 <= k <= Base.
BMulSmall(a, k) == IF k = 0 THEN <<>> ELSE BMulC(a, k, 1, 0)

BShLimbs(a, n) == IF a = <<>> THEN a ELSE [i \in 1..n |-> 0] \o a

RECURSIVE BMulAt(_, _, _)
BMulAt(a, b, i) ==
    IF i > Len(b) THEN <<>>
    ELSE IF b[i] = 0 THEN BMulAt(a, b, i + 1)
    ELSE BAdd(BShLimbs(BMulSmall(a, b[i]), i - 1), BMulAt(a, b, i + 1))

BMul(a, b) == BMulAt(a, b, 1)

\* a * 2^n and floor(a / 2^n).
BShl(a, n) == BShLimbs(BMulSmall(a, Pow2(n % 15)), n \div 15)

BShr(a, n) ==
    LET q == n \div 15
        s == n % 15
        L == Len(a) - q
    IN  IF L <= 0 THEN <<>>
        ELSE BTrim([i \in 1..L |-> (a[i + q] \div Pow2(s))
                                   + (Limb(a, i + q + 1) % Pow2(s)) * Pow2(15 - s)])

\* The n low bits of a are all zero.
BLowZero(a, n) ==
    /\ \A i \in 1..Min(n \div 15, Len(a)) : a[i] = 0
    /\ Limb(a, (n \div 15) + 1) % Pow2(n % 15) = 0

\* r * Base + x
BPush(r, x) == IF r = <<>> /\ x = 0 THEN <<>> ELSE <<x>> \o r

\* The next quotient digit is at most this, and at most 2 below it (the top
\* limb of v is at least Base / 2).
BGuess(r, v) ==
    Min((Limb(r, Len(v) + 1) * Base + Limb(r, Len(v))) \div v[Len(v)], Base - 1)

\* The largest digit d <= guess with v * d <= r, and r - v * d; p is v * guess.
RECURSIVE BFit(_, _, _, _)
BFit(r, v, guess, p) ==
    IF BCmp(p, r) > 0 THEN BFit(r, v, guess - 1, BSub(p, v))
    ELSE [d |-> guess, r |-> BSub(r, p)]

BStep(r, v, guess) == BFit(r, v, guess, BMulSmall(v, guess))

\* Long division of u by v: the limbs of u from the i-th down are still to
\* be brought down, r is the remainder and q the quotient so far.
RECURSIVE BDivAt(_, _, _, _, _)
RECURSIVE BDivNext(_, _, _, _, _)
BDivAt(u, v, i, r, q) ==
    IF i = 0 THEN [q |-> BTrim(q), r |-> r]
    ELSE BDivNext(u, v, i, BStep(BPush(r, u[i]), v, BGuess(BPush(r, u[i]), v)), q)

BDivNext(u, v, i, f, q) == BDivAt(u, v, i - 1, f.r, <<f.d>> \o q)

\* u divided by v, the top limb of v being at least Base / 2; the top
\* Len(v) - 1 limbs of u are the first remainder.
BDivNorm(u, v) ==
    IF Len(u) < Len(v) THEN [q |-> <<>>, r |-> u]
    ELSE BDivAt(u, v, Len(u) - Len(v) + 1,
                SubSeq(u, Len(u) - Len(v) + 2, Len(u)), <<>>)

\* Quotient q and remainder r * 2^s of a divided by b, b > 0, both scaled by
\* 2^s to bring the top limb of b up to Base / 2.
BDivScaled(a, b, s) == BDivNorm(BShl(a, s), BShl(b, s))

BDiv(a, b) == BDivScaled(a, b, 15 - BitLen(b[Len(b)]))

-----------------------------------------------------------------------------
(* IEEE-754 binary64 values that are not negative: NaN, +infinity, or      *)
(* m * 2^e with m = 0 (and e = 0), with 2^52 <= m < 2^53 and               *)
(* EMin <= e <= EMax (normal), or with 0 < m < 2^52 and e = EMin           *)
(* (subnormal).  Every operation rounds to nearest, ties to even, as the   *)
(* code's double arithmetic does: a result above the largest finite value  *)
(* is +infinity, one below 2^-1022 is rounded to a multiple of 2^-1074.    *)

\* The exponents of the smallest and of the largest 53-bit significand.
EMin == -1074
EMax == 971

DZero == [k |-> "fin", m |-> <<>>, e |-> 0]
DInf == [k |-> "inf", m |-> <<>>, e |-> 0]
DNaN == [k |-> "nan", m |-> <<>>, e |-> 0]

IsNaN(x) == x.k = "nan"
IsInf(x) == x.k = "inf"
IsZero(x) == x.k = "fin" /\ x.m = <<>>

\* The value m * 2^e, m below 2^53 and e >= EMin: zero, finite or, above
\* the largest finite value, +infinity.
Finite(m, e) ==
    IF m = <<>> THEN DZero
    ELSE IF e > EMax THEN DInf
    ELSE [k |-> "fin", m |-> m, e |-> e]

\* M * 2^e rounded to a significand of 53 bits by dropping the sh > 0 low
\* bits of M, to nearest and on a tie to even; sticky: there is more below M.
PackRound(M, e, sticky, sh) ==
    LET t == BShr(M, sh)
        half == BBit(M, sh - 1) = 1
        rest == sticky \/ ~BLowZero(M, sh - 1)
        up == half /\ (rest \/ Limb(t, 1) % 2 = 1)
        t1 == IF up THEN BAdd(t, <<1>>) ELSE t
    IN  IF BBits(t1) > 53 THEN Finite(BShr(t1, 1), e + sh + 1)
        ELSE Finite(t1, e + sh)

\* M * 2^e with the sh low bits dropped (sh > 0) or -sh zero bits appended.
PackAt(M, e, sticky, sh) ==
    IF sh <= 0 THEN Finite(BShl(M, -sh), e + sh)
    ELSE PackRound(M, e, sticky, sh)

\* The double nearest to (M + t) * 2^e, where 0 < t < 1 if sticky and t = 0
\* otherwise; sticky only with M of more than 54 bits.  The significand
\* keeps 53 bits, or fewer where the exponent would fall below EMin.
Pack(M, e, sticky) ==
    IF M = <<>> THEN DZero
    ELSE PackAt(M, e, sticky, Max(BBits(M) - 53, EMin - e))

\* (double)n for an integer 0 <= n < 2^31.
DInt(n) == Pack(BInt(n), 0, FALSE)

DLt(x, y) ==
    IF IsNaN(x) \/ IsNaN(y) \/ IsInf(x) THEN FALSE
    ELSE IF IsInf(y) THEN TRUE
    ELSE IF IsZero(y) THEN FALSE
    ELSE IF IsZero(x) THEN TRUE
    ELSE x.e < y.e \/ (x.e = y.e /\ BCmp(x.m, y.m) < 0)

DEq(x, y) == ~IsNaN(x) /\ ~IsNaN(y) /\ x = y
DGt(x, y) == DLt(y, x)
DGe(x, y) == DLt(y, x) \/ DEq(x, y)
DLe(x, y) == DLt(x, y) \/ DEq(x, y)

\* x * y
DMul(x, y) ==
    IF IsNaN(x) \/ IsNaN(y) THEN DNaN
    ELSE IF IsInf(x) \/ IsInf(y)
         THEN (IF IsZero(x) \/ IsZero(y) THEN DNaN ELSE DInf)
    ELSE Pack(BMul(x.m, y.m), x.e + y.e, FALSE)

\* The quotient of the finite x and y, both above 0, the significand of x
\* extended by s bits to 109 bits and that of y by t bits to 53 bits (a
\* quotient of 56 or 57 bits).
DivWith(d, e) == Pack(d.q, e, d.r # <<>>)

DivAt(x, y, s, t) ==
    DivWith(BDiv(BShl(x.m, s), BShl(y.m, t)), (x.e - s) - (y.e - t))

\* x / y
DDiv(x, y) ==
    IF IsNaN(x) \/ IsNaN(y) THEN DNaN
    ELSE IF IsInf(x) THEN (IF IsInf(y) THEN DNaN ELSE DInf)
    ELSE IF IsInf(y) THEN DZero
    ELSE IF IsZero(y) THEN (IF IsZero(x) THEN DNaN ELSE DInf)
    ELSE IF IsZero(x) THEN DZero
    ELSE DivAt(x, y, 109 - BBits(x.m), 53 - BBits(y.m))

\* x - y for x >= y.
DSub(x, y) ==
    IF IsNaN(x) \/ IsNaN(y) THEN DNaN
    ELSE IF IsInf(x) THEN (IF IsInf(y) THEN DNaN ELSE DInf)
    ELSE IF IsZero(y) THEN x
    ELSE IF x.e - y.e > 55 THEN x
    ELSE Pack(BSub(BShl(x.m, x.e - y.e), y.m), y.e, FALSE)

\* floor() and round() of <math.h>; round() goes half away from zero.
floor(x) ==
    IF x.k # "fin" \/ x.e >= 0 THEN x
    ELSE Pack(BShr(x.m, -x.e), 0, FALSE)

round(x) ==
    IF x.k # "fin" \/ x.e >= 0 THEN x
    ELSE Pack(BAdd(BShr(x.m, -x.e),
                   IF BBit(x.m, (-x.e) - 1) = 1 THEN <<1>> ELSE <<>>), 0, FALSE)

\* The literal n/d of a call: the double nearest to n/d.
D(n, d) == DDiv(DInt(n), DInt(d))

\* The double nearest to n * 2^e, 0 <= n < 2^31.
Scaled(n, e) == Pack(BInt(n), e, FALSE)

TwoTo16 == 2 ^ 16

\* (uint16_t)x for x = floor(..) or round(..).  With x above 65535, infinite
\* or NaN the conversion is undefined behaviour.  A build that converts
\* through a 32-bit integer (cvttsd2si) and keeps the low 16 bits yields the
\* value modulo 2^16 below 2^31 and 0 from 2^31 on, for infinity and for NaN
\* (the low half of the "indefinite" result 0x80000000); a build that folds
\* or saturates yields 65535, and 0 for NaN.
CastU16(x, b) ==
    IF IsNaN(x) THEN 0
    ELSE IF IsInf(x) THEN (IF b.cast = "wrap" THEN 0 ELSE TwoTo16 - 1)
    ELSE IF IsZero(x) THEN 0
    ELSE IF 53 + x.e <= 16 THEN BToInt(BShr(x.m, -x.e))
    ELSE IF b.cast = "saturate" THEN TwoTo16 - 1
    ELSE IF 53 + x.e <= 31 THEN BToInt(BShr(x.m, -x.e)) % TwoTo16
    ELSE 0

-----------------------------------------------------------------------------
(* uint32_t words as sets of bit positions.                                *)

U32(v) == {i \in 0..15 : (v \div Pow2(i)) % 2 = 1}
Shl(w, k) == {i + k : i \in w} \cap (0..31)
RECURSIVE BitSum(_)
BitSum(s) == IF s = {} THEN 0
             ELSE LET i == CHOOSE j \in s : TRUE IN Pow2(i) + BitSum(s \ {i})
Field(w, off, width) == BitSum({i - off : i \in w \cap (off..(off + width - 1))})

\* Bytes of a word, most significant first, and back.
Byte(w, k) == Field(w, 8 * k, 8)
WordBits(t) == Shl(U32(t[1]), 24) \cup Shl(U32(t[2]), 16)
               \cup Shl(U32(t[3]), 8) \cup U32(t[4])

-----------------------------------------------------------------------------
(* The object.                                                             *)

self == [_refFreqMHz |-> _refFreqMHz, _outputFreqMHz |-> _outputFreqMHz,
         _pfdFreqMHz |-> _pfdFreqMHz, _rCounter |-> _rCounter,
         _refDoubler |-> _refDoubler, _refDiv2 |-> _refDiv2,
         _outputPower |-> _outputPower, _rfOutputEnable |-> _rfOutputEnable,
         _chargePumpCurr |-> _chargePumpCurr]

\* The double literals of the source and of the calls the claims name.
FreqMin == DInt(35)
FreqMax == DInt(4400)
VcoMin == DInt(2200)
VcoMax == DInt(4400)
Breaks == <<DInt(2200), DInt(1100), DInt(550), DInt(275), D(275, 2), D(275, 4)>>
Ref25 == DInt(25)
F1000 == DInt(1000)
Cs001 == D(1, 100)

\* ADF4351::ADF4351
Constructed == [_refFreqMHz |-> Ref25, _outputFreqMHz |-> DZero,
                _pfdFreqMHz |-> Ref25, _rCounter |-> 1,
                _refDoubler |-> 0, _refDiv2 |-> 0,
                _outputPower |-> 3, _rfOutputEnable |-> 1,
                _chargePumpCurr |-> 7]

\* _refFreqMHz * (1 + _refDoubler) / (_rCounter * (1 + _refDiv2))
PfdOf(s) == DDiv(DMul(s._refFreqMHz, DInt(1 + s._refDoubler)),
                 DInt(s._rCounter * (1 + s._refDiv2)))

\* begin() also re-initialising the stored output frequency.
begin_resetting(s, refFreqMHz) ==
    LET t == [s EXCEPT !._refFreqMHz = refFreqMHz, !._outputFreqMHz = DZero]
    IN  [t EXCEPT !._pfdFreqMHz = PfdOf(t)]

begin(s, refFreqMHz) ==
    LET t == [s EXCEPT !._refFreqMHz = refFreqMHz]
    IN  [t EXCEPT !._pfdFreqMHz = PfdOf(t)]

setReference(s, refFreqMHz, rCounter, refDoubler, refDiv2) ==
    LET t == [s EXCEPT !._refFreqMHz = refFreqMHz, !._rCounter = rCounter,
                       !._refDoubler = refDoubler, !._refDiv2 = refDiv2]
    IN  [t EXCEPT !._pfdFreqMHz = PfdOf(t)]

\* setOutputPower without the clamp.
setOutputPower_unclamped(s, power) == [s EXCEPT !._outputPower = power]

setOutputPower(s, power) ==
    [s EXCEPT !._outputPower = IF power > 3 THEN 3 ELSE power]

enableOutput(s, enable) ==
    [s EXCEPT !._rfOutputEnable = IF enable THEN 1 ELSE 0]

setChargePumpCurrent(s, current) ==
    [s EXCEPT !._chargePumpCurr = IF current > 15 THEN 15 ELSE current]

getFrequency(s) == s._outputFreqMHz

getPFDFrequency(s) == s._pfdFreqMHz

\* One LE-framed SPI transaction: the four bytes, most significant first.
writeRegister(data) == <<Byte(data, 3), Byte(data, 2), Byte(data, 1), Byte(data, 0)>>

\* selectOutputDivider with the second breakpoint at 1000 instead of 1100.
selectOutputDivider_1000(freqMHz) ==
    IF DGe(freqMHz, Breaks[1]) THEN [outDivider |-> 1, outRFdivSel |-> 0]
    ELSE IF DGe(freqMHz, F1000) THEN [outDivider |-> 2, outRFdivSel |-> 1]
    ELSE IF DGe(freqMHz, Breaks[3]) THEN [outDivider |-> 4, outRFdivSel |-> 2]
    ELSE IF DGe(freqMHz, Breaks[4]) THEN [outDivider |-> 8, outRFdivSel |-> 3]
    ELSE IF DGe(freqMHz, Breaks[5]) THEN [outDivider |-> 16, outRFdivSel |-> 4]
    ELSE IF DGe(freqMHz, Breaks[6]) THEN [outDivider |-> 32, outRFdivSel |-> 5]
    ELSE [outDivider |-> 64, outRFdivSel |-> 6]

\* The thresholds 2200, 1100, 550, 275, 137.5 and 68.75 are Breaks[1..6]; a
\* NaN fails every comparison and gets the last branch.
selectOutputDivider(freqMHz) ==
    IF DGe(freqMHz, Breaks[1]) THEN [outDivider |-> 1, outRFdivSel |-> 0]
    ELSE IF DGe(freqMHz, Breaks[2]) THEN [outDivider |-> 2, outRFdivSel |-> 1]
    ELSE IF DGe(freqMHz, Breaks[3]) THEN [outDivider |-> 4, outRFdivSel |-> 2]
    ELSE IF DGe(freqMHz, Breaks[4]) THEN [outDivider |-> 8, outRFdivSel |-> 3]
    ELSE IF DGe(freqMHz, Breaks[5]) THEN [outDivider |-> 16, outRFdivSel |-> 4]
    ELSE IF DGe(freqMHz, Breaks[6]) THEN [outDivider |-> 32, outRFdivSel |-> 5]
    ELSE [outDivider |-> 64, outRFdivSel |-> 6]

\* The VCO range check of updateRegisters.
VcoRejected(vcoFreqMHz) ==
    DLt(vcoFreqMHz, VcoMin) \/ DGt(vcoFreqMHz, VcoMax)

\* uint16_t N_int = (uint16_t)floor(N)
CalcNint(N, b) == CastU16(floor(N), b)

\* uint16_t MOD = (uint16_t)round(pfd / channelSpacing); if (MOD > 4095) MOD = 4095
CalcMOD(pfdFreqMHz, channelSpacingMHz, b) ==
    LET m == CastU16(round(DDiv(pfdFreqMHz, channelSpacingMHz)), b)
    IN  IF m > 4095 THEN 4095 ELSE m

\* uint16_t N_frac = (uint16_t)round((N - N_int) * MOD), the difference and
\* the product each rounded to a double.
CalcNfrac(N, nInt, mod, b) ==
    CastU16(round(DMul(DSub(N, DInt(nInt)), DInt(mod))), b)

\* if (N_frac >= MOD) { N_int += N_frac / MOD; N_frac = N_frac % MOD; }
\* With MOD = 0 the division is undefined: the build traps, or (no trap)
\* the quotient is 0 and the remainder is the dividend.
CarryCorrect(nInt, nFrac, mod, b) ==
    IF nFrac >= mod
    THEN IF mod = 0
         THEN [trap |-> b.div0 = "trap", divZero |-> TRUE,
               N_int |-> nInt, N_frac |-> nFrac]
         ELSE [trap |-> FALSE, divZero |-> FALSE,
               N_int |-> (nInt + (nFrac \div mod)) % TwoTo16,
               N_frac |-> nFrac % mod]
    ELSE [trap |-> FALSE, divZero |-> FALSE, N_int |-> nInt, N_frac |-> nFrac]

\* prescaler, ldp and ldf from the values c left by the carry correction.
Modes(c, mod) ==
    [trap |-> c.trap, divZero |-> c.divZero,
     N_int |-> c.N_int, N_frac |-> c.N_frac, MOD |-> mod,
     prescaler |-> IF c.N_int < 75 THEN 0 ELSE 1,
     ldp |-> IF c.N_frac = 0 THEN 1 ELSE 0,
     ldf |-> IF c.N_frac = 0 THEN 1 ELSE 0]

\* N_frac, the carry correction and the modes, once N_int and MOD are known.
PlanFrac(N, nInt, mod, b) ==
    Modes(CarryCorrect(nInt, CalcNfrac(N, nInt, mod, b), mod, b), mod)

\* N_int and what follows it, once N and MOD are known.
PlanInt(N, mod, b) == PlanFrac(N, CalcNint(N, b), mod, b)

\* The synthesis values of updateRegisters for an accepted VCO frequency.
Plan(vcoFreqMHz, pfdFreqMHz, channelSpacingMHz, b) ==
    PlanInt(DDiv(vcoFreqMHz, pfdFreqMHz),
            CalcMOD(pfdFreqMHz, channelSpacingMHz, b), b)

\* Register 0 with N_int shifted by 16 instead of 15.
Reg0_shift16(p) == U32(0) \cup Shl(U32(p.N_int), 16) \cup Shl(U32(p.N_frac), 3)

Reg0(p) == U32(0) \cup Shl(U32(p.N_int), 15) \cup Shl(U32(p.N_frac), 3)

Reg1(p) == U32(1) \cup Shl(U32(p.MOD), 3) \cup Shl(U32(1), 15)
           \cup Shl(U32(p.prescaler), 27)

Reg2(s, p) ==
    U32(2) \cup Shl(U32(0), 3) \cup Shl(U32(0), 4) \cup Shl(U32(0), 5)
    \cup Shl(U32(1), 6) \cup Shl(U32(p.ldp), 7) \cup Shl(U32(p.ldf), 8)
    \cup Shl(U32(s._chargePumpCurr), 9) \cup Shl(U32(0), 13)
    \cup Shl(U32(s._rCounter), 14) \cup Shl(U32(s._refDiv2), 24)
    \cup Shl(U32(s._refDoubler), 25) \cup Shl(U32(0), 26) \cup Shl(U32(0), 29)

Reg3 == U32(3) \cup Shl(U32(150), 3) \cup Shl(U32(0), 15) \cup Shl(U32(0), 18)
        \cup Shl(U32(0), 21) \cup Shl(U32(0), 22) \cup Shl(U32(0), 23)

\* bandSelDiv = 200; feedbackSelect is 1 on both branches of its conditional.
Reg4(s, RFdivSel) ==
    U32(4) \cup Shl(U32(s._outputPower % 4), 3)
    \cup Shl(U32(s._rfOutputEnable), 5) \cup Shl(U32(0), 6) \cup Shl(U32(0), 8)
    \cup Shl(U32(0), 9) \cup Shl(U32(0), 10) \cup Shl(U32(0), 11)
    \cup Shl(U32(200 % 256), 12) \cup Shl(U32(RFdivSel % 8), 20)
    \cup Shl(U32(1), 23)

Reg5 == U32(5) \cup Shl(U32(3), 19) \cup Shl(U32(0), 21) \cup Shl(U32(1), 22)

\* The registers written in ascending order, R0 to R5.
WriteAll_ascending(reg5, reg4, reg3, reg2, reg1, reg0) ==
    <<writeRegister(reg0), writeRegister(reg1), writeRegister(reg2),
      writeRegister(reg3), writeRegister(reg4), writeRegister(reg5)>>

\* Write registers (R5 to R0)
WriteAll(reg5, reg4, reg3, reg2, reg1, reg0) ==
    <<writeRegister(reg5), writeRegister(reg4), writeRegister(reg3),
      writeRegister(reg2), writeRegister(reg1), writeRegister(reg0)>>

\* The outcome of updateRegisters, given the divider selection sel, the VCO
\* frequency and the synthesis values p: ret is "true", "false" or "trap"
\* (the call never returned).
Outcome(s, sel, vcoFreqMHz, p) ==
    IF VcoRejected(vcoFreqMHz) THEN [ret |-> "false", writes |-> <<>>]
    ELSE IF p.trap THEN [ret |-> "trap", writes |-> <<>>]
    ELSE [ret |-> "true",
          writes |-> WriteAll(Reg5, Reg4(s, sel.outRFdivSel), Reg3,
                              Reg2(s, p), Reg1(p), Reg0(p))]

UpdateAt(s, sel, vcoFreqMHz, channelSpacingMHz, b) ==
    Outcome(s, sel, vcoFreqMHz,
            Plan(vcoFreqMHz, s._pfdFreqMHz, channelSpacingMHz, b))

UpdateWith(s, sel, channelSpacingMHz, b) ==
    UpdateAt(s, sel, DMul(s._outputFreqMHz, DInt(sel.outDivider)),
             channelSpacingMHz, b)

updateRegisters(s, channelSpacingMHz, b) ==
    UpdateWith(s, selectOutputDivider(s._outputFreqMHz), channelSpacingMHz, b)

\* What a setFrequency call leaves: the object, the result, the words written.
Returned(t, u) == [self |-> t, ret |-> u.ret, writes |-> u.writes]

\* setFrequency storing the frequency before validating it.
setFrequency_storeFirst(s, freqMHz, channelSpacingMHz, b) ==
    LET t == [s EXCEPT !._outputFreqMHz = freqMHz]
    IN  IF DLt(freqMHz, FreqMin) \/ DGt(freqMHz, FreqMax)
        THEN [self |-> t, ret |-> "false", writes |-> <<>>]
        ELSE Returned(t, updateRegisters(t, channelSpacingMHz, b))

\* setFrequency computing the registers before storing the new frequency.
setFrequency_staleUpdate(s, freqMHz, channelSpacingMHz, b) ==
    IF DLt(freqMHz, FreqMin) \/ DGt(freqMHz, FreqMax)
    THEN [self |-> s, ret |-> "false", writes |-> <<>>]
    ELSE Returned([s EXCEPT !._outputFreqMHz = freqMHz],
                  updateRegisters(s, channelSpacingMHz, b))

setFrequency(s, freqMHz, channelSpacingMHz, b) ==
    IF DLt(freqMHz, FreqMin) \/ DGt(freqMHz, FreqMax)
    THEN [self |-> s, ret |-> "false", writes |-> <<>>]
    ELSE Returned([s EXCEPT !._outputFreqMHz = freqMHz],
                  updateRegisters([s EXCEPT !._outputFreqMHz = freqMHz],
                                  channelSpacingMHz, b))

-----------------------------------------------------------------------------
(* Inputs.                                                                 *)

\* 34.75, 1000, 1450.0625, 4400, 4400.25 and NaN.  With the default
\* reference and a spacing of 0.01, 1450.0625 gives (N - N_int) * MOD =
\* 12.499999999988631 where exact arithmetic gives 12.5.
Freqs == {D(139, 4), F1000, D(23201, 16), FreqMax, D(17601, 4), DNaN}

\* 0.01, 25, 100, 3/8192, 2^-27 and the subnormal 1350 * 2^-1074: with the
\* default reference the rounded quotient pfd / spacing is 2500, 1, 0, 68267,
\* 25 * 2^27 and +infinity.
Spacings ==
    {Cs001, Ref25, DInt(100), D(3, 8192), D(1, 2 ^ 27), Scaled(1350, EMin)}

\* 2^1023 (doubled, above the largest finite value) and the subnormal
\* 2024 * 2^-1074 (divided by 3, the subnormal 675 * 2^-1074).
RefHuge == Scaled(1, 1023)
RefTiny == Scaled(2024, EMin)

\* The arguments of begin: 25, 0.01 and the two above.
RefFreqs == {Ref25, Cs001, RefHuge, RefTiny}
RCounters == {0, 1}
Doublers == {0, 1}
Div2s == {0, 2}

\* The arguments of setReference: 25 and 0.01 with every counter, doubler and
\* divider drawn, 2^1023 doubled, the subnormal reference divided by 3.
RefConfigs ==
    [refFreqMHz : {Ref25, Cs001}, rCounter : RCounters,
     refDoubler : Doublers, refDiv2 : Div2s]
    \cup {[refFreqMHz |-> RefHuge, rCounter |-> 1, refDoubler |-> 1, refDiv2 |-> 0],
          [refFreqMHz |-> RefTiny, rCounter |-> 1, refDoubler |-> 0, refDiv2 |-> 2]}
Powers == {0, 255}
Currents == {0, 255}

\* Every multiple of 1/den MHz from 30 to 4405.
GridFreqs(den) == {D(n, den) : n \in (30 * den)..(4405 * den)}

\* The builds: one that truncates an out-of-range conversion and traps on an
\* integer division by zero, one that saturates and does not trap.
Builds == {[cast |-> "wrap", div0 |-> "trap"], [cast |-> "saturate", div0 |-> "zero"]}

-----------------------------------------------------------------------------
(* The state machine.                                                      *)

Store(s) ==
    /\ _refFreqMHz' = s._refFreqMHz
    /\ _outputFreqMHz' = s._outputFreqMHz
    /\ _pfdFreqMHz' = s._pfdFreqMHz
    /\ _rCounter' = s._rCounter
    /\ _refDoubler' = s._refDoubler
    /\ _refDiv2' = s._refDiv2
    /\ _outputPower' = s._outputPower
    /\ _rfOutputEnable' = s._rfOutputEnable
    /\ _chargePumpCurr' = s._chargePumpCurr

Holds(s) ==
    /\ _refFreqMHz = s._refFreqMHz
    /\ _outputFreqMHz = s._outputFreqMHz
    /\ _pfdFreqMHz = s._pfdFreqMHz
    /\ _rCounter = s._rCounter
    /\ _refDoubler = s._refDoubler
    /\ _refDiv2 = s._refDiv2
    /\ _outputPower = s._outputPower
    /\ _rfOutputEnable = s._rfOutputEnable
    /\ _chargePumpCurr = s._chargePumpCurr

NoCall == [op |-> "none", ret |-> "void", f |-> DZero, cs |-> DZero]

NoPending == [f |-> DZero, byte |-> 0]

NoSF == [valid |-> FALSE, f |-> DZero, cs |-> DZero, ret |-> "void", writes |-> <<>>]

InitWith(drawn) ==
    /\ Holds(Constructed)
    /\ sink = <<>>
    /\ build \in Builds
    /\ halted = FALSE
    /\ calls = 0
    /\ last = NoCall
    /\ okFreq = DZero
    /\ powerIn = Constructed._outputPower
    /\ currentIn = Constructed._chargePumpCurr
    /\ sfPrev = NoSF
    /\ sfLast = NoSF
    /\ dirty = FALSE
    /\ sfDirty = FALSE
    /\ pending \in drawn

Init == InitWith({NoPending})

\* A configuration method (every method but setFrequency) has run.
Setter(op, arg, s) ==
    /\ ~halted
    /\ Store(s)
    /\ calls' = calls + 1
    /\ last' = [op |-> op, ret |-> "void", f |-> DZero, cs |-> DZero]
    /\ dirty' = TRUE
    /\ powerIn' = IF op = "setOutputPower" THEN arg ELSE powerIn
    /\ currentIn' = IF op = "setChargePumpCurrent" THEN arg ELSE currentIn
    /\ UNCHANGED <<sink, build, halted, okFreq, sfPrev, sfLast, sfDirty, pending>>

Begin(R, max) ==
    /\ calls < max
    /\ \E refFreqMHz \in R : Setter("begin", 0, begin(self, refFreqMHz))

SetReference(C, max) ==
    /\ calls < max
    /\ \E c \in C :
           Setter("setReference", 0,
                  setReference(self, c.refFreqMHz, c.rCounter,
                               c.refDoubler, c.refDiv2))

SetOutputPower(P, max) ==
    /\ calls < max
    /\ \E power \in P :
           Setter("setOutputPower", power, setOutputPower(self, power))

EnableOutput(max) ==
    /\ calls < max
    /\ \E enable \in BOOLEAN :
           Setter("enableOutput", IF enable THEN 1 ELSE 0,
                  enableOutput(self, enable))

SetChargePumpCurrent(C, max) ==
    /\ calls < max
    /\ \E current \in C :
           Setter("setChargePumpCurrent", current,
                  setChargePumpCurrent(self, current))

\* setFrequency(freqMHz, channelSpacingMHz) has run and left r.
Called(freqMHz, channelSpacingMHz, r) ==
    /\ ~halted
    /\ Store(r.self)
    /\ sink' = sink \o r.writes
    /\ halted' = (r.ret = "trap")
    /\ calls' = calls + 1
    /\ last' = [op |-> "setFrequency", ret |-> r.ret, f |-> freqMHz,
                cs |-> channelSpacingMHz]
    /\ okFreq' = IF r.ret = "true" THEN freqMHz ELSE okFreq
    /\ sfPrev' = sfLast
    /\ sfLast' = [valid |-> TRUE, f |-> freqMHz, cs |-> channelSpacingMHz,
                  ret |-> r.ret, writes |-> r.writes]
    /\ sfDirty' = dirty
    /\ dirty' = FALSE
    /\ UNCHANGED <<build, powerIn, currentIn, pending>>

SetFrequency(F, CS, max) ==
    /\ calls < max
    /\ \E freqMHz \in F, channelSpacingMHz \in CS :
           Called(freqMHz, channelSpacingMHz,
                  setFrequency(self, freqMHz, channelSpacingMHz, build))

Next ==
    \/ Begin(RefFreqs, MaxCalls)
    \/ SetReference(RefConfigs, MaxCalls)
    \/ SetFrequency(Freqs, Spacings, MaxCalls)
    \/ SetOutputPower(Powers, MaxCalls)
    \/ EnableOutput(MaxCalls)
    \/ SetChargePumpCurrent(Currents, MaxCalls)

Spec == Init /\ [][Next]_vars

\* The clamping setters on one uint8_t argument, any of the 256, drawn at
\* the start, with enableOutput and setFrequency(1000, 0.01).
InitSetters == InitWith([f : {F1000}, byte : 0..255])

NextSetters ==
    \/ SetOutputPower({pending.byte}, MaxSetterCalls)
    \/ SetChargePumpCurrent({pending.byte}, MaxSetterCalls)
    \/ EnableOutput(MaxSetterCalls)
    \/ SetFrequency({pending.f}, {Cs001}, MaxSetterCalls)

SpecSetters == InitSetters /\ [][NextSetters]_vars

\* One setFrequency call on a freshly constructed object, its frequency
\* drawn from the grid.
InitGrid == InitWith([f : GridFreqs(GridDen), byte : {0}])

NextGrid == calls = 0 /\ SetFrequency({pending.f}, {Cs001}, MaxCalls)

SpecGrid == InitGrid /\ [][NextGrid]_vars

-----------------------------------------------------------------------------
(* The claims.                                                             *)

Dividers == {1, 2, 4, 8, 16, 32, 64}

\* The latest call was a setFrequency that returned true.
Succeeded == last.op = "setFrequency" /\ last.ret = "true"

\* A step that is a setFrequency call with the given outcome.
SetFrequencyStep(ret) ==
    calls' = calls + 1 /\ last'.op = "setFrequency" /\ last'.ret = ret

\* The word of register addr in the latest six-word group of the sink.
Emitted(addr) == WordBits(sink[Len(sink) - addr])

\* The address bits of the i-th transaction of a sink.
Address(sk, i) == Field(WordBits(sk[i]), 0, 3)

\* The value of a transaction whose top bit is clear.
WordValue(t) == ((t[1] * 256 + t[2]) * 256 + t[3]) * 256 + t[4]

\* The VCO frequency of the stored output frequency.
VcoOfStored ==
    DMul(_outputFreqMHz, DInt(selectOutputDivider(_outputFreqMHz).outDivider))

\* The VCO frequency of the stored frequency passes the range check of
\* updateRegisters (as a NaN does, failing both comparisons).
VcoAccepted == ~VcoRejected(VcoOfStored)

\* The VCO frequency of the stored frequency is a number in [2200, 4400].
VcoInRange == DGe(VcoOfStored, VcoMin) /\ DLe(VcoOfStored, VcoMax)

\* The phase-detector frequency is a number above 0.
PfdPositive == _pfdFreqMHz.k = "fin" /\ ~IsZero(_pfdFreqMHz)

\* The value of an integer-valued double below 2^31.
IntOf(x) == IF IsZero(x) THEN 0 ELSE BToInt(BShr(x.m, -x.e))

\* C1: for every f with 35 <= f <= 4400, selectOutputDivider returns a
\* divider d in {1,2,4,8,16,32,64} with select code log2(d), d is the
\* smallest divider with f*d >= 2200, and 2200 <= f*d < 4400 (f*d = 4400 only
\* at f = 4400); so the VCO range check never rejects a frequency that
\* passed setFrequency's validation, and the select code is what register 4
\* carries.
C1_DividerSelection ==
    (/\ last.op = "setFrequency"
     /\ DGe(last.f, FreqMin)
     /\ DLe(last.f, FreqMax))
    => LET sel == selectOutputDivider(last.f)
           d == sel.outDivider
       IN  /\ d \in Dividers
           /\ d = 2 ^ sel.outRFdivSel
           /\ DGe(DMul(last.f, DInt(d)), VcoMin)
           /\ \A c \in Dividers :
                  c < d => DLt(DMul(last.f, DInt(c)), VcoMin)
           /\ DLt(DMul(last.f, DInt(d)), VcoMax) \/ last.f = FreqMax
           /\ last.ret # "false"
           /\ last.ret = "true" => Field(Emitted(4), 20, 3) = sel.outRFdivSel

\* setFrequency(68.75) succeeded with divider 32, the lowest frequency of
\* its bracket.
C1_Witness ==
    /\ Succeeded
    /\ last.f = Breaks[6]
    /\ Field(Emitted(4), 20, 3) = 5

\* C2: a setFrequency call that returns false writes nothing to the sink and
\* leaves the value returned by getFrequency() as it was.
C2_FailureIsolation ==
    [][SetFrequencyStep("false")
       => (sink' = sink /\ _outputFreqMHz' = _outputFreqMHz)]_vars

\* A setFrequency call failed after an earlier one had programmed the chip.
C2_Witness ==
    /\ last.op = "setFrequency"
    /\ last.ret = "false"
    /\ okFreq # DZero
    /\ _outputFreqMHz = okFreq
    /\ Len(sink) = 6

\* C3: a setFrequency call that returns true appends exactly six words, in
\* the order register 5, 4, 3, 2, 1, 0, each with its address in its low three
\* bits; no other step writes; so the write history is a concatenation of
\* complete groups, register 0 last.
C3_SixWordGroups ==
    [][/\ SetFrequencyStep("true")
          => /\ Len(sink') = Len(sink) + 6
             /\ SubSeq(sink', 1, Len(sink)) = sink
             /\ \A k \in 1..6 : Address(sink', Len(sink) + k) = 6 - k
       /\ ~SetFrequencyStep("true") => sink' = sink
       /\ Len(sink') % 6 = 0
       /\ \A i \in 1..Len(sink') : Address(sink', i) = 5 - ((i - 1) % 6)]_vars

\* Two setFrequency calls have succeeded: the sink holds two groups.
C3_Witness == Succeeded /\ Len(sink) = 12

\* C4: for every accepted VCO frequency in [2200, 4400], phase-detector
\* frequency > 0 and channel spacing > 0, updateRegisters completes without
\* dividing by zero and the N_frac packed into register 0 is below the MOD
\* packed into register 1.
C4_NfracBelowMod ==
    (/\ last.op = "setFrequency"
     /\ last.ret # "false"
     /\ VcoAccepted
     /\ VcoInRange
     /\ PfdPositive)
    => /\ last.ret = "true"
       /\ ~Plan(VcoOfStored, _pfdFreqMHz, last.cs, build).divZero
       /\ Field(Emitted(0), 3, 12) < Field(Emitted(1), 3, 12)

\* C5: while the program runs, getFrequency() returns the frequency argument
\* of the most recent setFrequency call that returned true (0.0 if none);
\* every other call leaves it unchanged.
C5_GetFrequency == ~halted => getFrequency(self) = okFreq

\* A configuration method ran after a successful setFrequency(1000, ...).
C5_Witness ==
    /\ last.op \in {"begin", "setReference"}
    /\ okFreq = F1000
    /\ getFrequency(self) = F1000

\* C6: two setFrequency calls with the same arguments and no configuration
\* method between them return the same result and write the same words.
C6_Idempotent ==
    (/\ sfPrev.valid
     /\ sfLast.valid
     /\ ~sfDirty
     /\ sfPrev.f = sfLast.f
     /\ sfPrev.cs = sfLast.cs)
    => (sfPrev.ret = sfLast.ret /\ sfPrev.writes = sfLast.writes)

\* The same successful call made twice in a row, the first of them on an
\* object whose stored frequency was still 0.0.
C6_Witness ==
    /\ sfPrev.valid
    /\ sfLast.valid
    /\ ~sfDirty
    /\ sfPrev.f = sfLast.f
    /\ sfPrev.cs = sfLast.cs
    /\ sfLast.ret = "true"
    /\ Len(sfLast.writes) = 6
    /\ Len(sink) = 12

\* C7: with reference 25 MHz, rCounter 1, doubler 0, div2 0 (phase-detector
\* frequency 25), setFrequency(1000.0, 0.01) selects divider 4 with code 2,
\* N_int = 160, MOD = 2500, N_frac = 0, prescaler 1, both lock-detect bits 1,
\* and writes 5242880 for register 0.
C7_Scenario ==
    (/\ last.op = "setFrequency"
     /\ last.f = F1000
     /\ last.cs = Cs001
     /\ _refFreqMHz = Ref25
     /\ _rCounter = 1
     /\ _refDoubler = 0
     /\ _refDiv2 = 0)
    => /\ getPFDFrequency(self) = Ref25
       /\ last.ret = "true"
       /\ selectOutputDivider(last.f) = [outDivider |-> 4, outRFdivSel |-> 2]
       /\ Field(Emitted(4), 20, 3) = 2
       /\ Field(Emitted(0), 15, 16) = 160
       /\ Field(Emitted(1), 3, 12) = 2500
       /\ Field(Emitted(0), 3, 12) = 0
       /\ Field(Emitted(1), 27, 1) = 1
       /\ Field(Emitted(2), 7, 1) = 1
       /\ Field(Emitted(2), 8, 1) = 1
       /\ WordValue(sink[Len(sink)]) = 5242880

\* The scenario's call has been made on the default reference configuration.
C7_Witness ==
    /\ Succeeded
    /\ last.f = F1000
    /\ last.cs = Cs001
    /\ _refFreqMHz = Ref25
    /\ _rCounter = 1
    /\ _refDoubler = 0
    /\ _refDiv2 = 0

\* C8: setOutputPower and setChargePumpCurrent store min(input, 3) and
\* min(input, 15); a register set emitted afterwards carries the clamped
\* values in register 4 bits 3-4 and register 2 bits 9-12, and the
\* neighbouring fields hold their own values.
C8_Clamping ==
    /\ _outputPower = Min(powerIn, 3)
    /\ _chargePumpCurr = Min(currentIn, 15)
    /\ Succeeded
       => /\ Field(Emitted(4), 3, 2) = Min(powerIn, 3)
          /\ Field(Emitted(4), 0, 3) = 4
          /\ Field(Emitted(4), 5, 1) = _rfOutputEnable
          /\ Field(Emitted(4), 6, 6) = 0
          /\ Field(Emitted(2), 9, 4) = Min(currentIn, 15)
          /\ Field(Emitted(2), 6, 3) = 7
          /\ Field(Emitted(2), 13, 1) = 0
          /\ Field(Emitted(2), 14, 10) = _rCounter

\* A register set was emitted after both setters had clamped the argument 255.
C8_Witness ==
    /\ Succeeded
    /\ powerIn = 255
    /\ currentIn = 255
    /\ Field(Emitted(4), 3, 2) = 3
    /\ Field(Emitted(2), 9, 4) = 15

\* C9: for every configuration set through setReference, the register 2 word
\* of the next successful setFrequency carries rCounter in bits 14-23, div2
\* in bit 24 only, doubler in bit 25 only, MUXOUT, low-noise mode, double
\* buffer and bits 3-5 equal to 0 and PD polarity equal to 1.
C9_Register2Fields ==
    Succeeded
    => /\ Field(Emitted(2), 14, 10) = _rCounter
       /\ Field(Emitted(2), 24, 1) = _refDiv2
       /\ Field(Emitted(2), 25, 1) = _refDoubler
       /\ Field(Emitted(2), 26, 3) = 0
       /\ Field(Emitted(2), 29, 2) = 0
       /\ Field(Emitted(2), 13, 1) = 0
       /\ Field(Emitted(2), 3, 3) = 0
       /\ Field(Emitted(2), 6, 1) = 1

\* C10: the modulus packed into register 1 equals
\* min(round(pfd / channelSpacing), 4095), also when the rounded quotient
\* exceeds 65535, and, the VCO frequency being a number, the N_int packed
\* into register 0 equals floor(vco / pfd) plus any rounding carry, without
\* 16-bit wrap-around.
C10_ModulusAndNint ==
    (Succeeded /\ VcoAccepted /\ PfdPositive)
    => LET q == round(DDiv(_pfdFreqMHz, last.cs))
           n == floor(DDiv(VcoOfStored, _pfdFreqMHz))
       IN  /\ Field(Emitted(1), 3, 12)
                = (IF DGt(q, DInt(4095)) THEN 4095 ELSE IntOf(q))
           /\ VcoInRange
                => /\ DLt(n, DInt(TwoTo16))
                   /\ Field(Emitted(0), 15, 16) \in {IntOf(n), IntOf(n) + 1}

====
